---- MODULE Spec2Model ----
(***************************************************************************)
(* A model of frontend/src/services/ExportService.ts: the export           *)
(* orchestrator exportDashboard and its four renderers (image, PDF,        *)
(* PowerPoint, HTML), with the browser collaborators (canvas surface,      *)
(* binary encoders, clipboard) as nondeterministic environment.            *)
(*                                                                         *)
(* JavaScript numbers are IEEE-754 doubles.  They are modelled bit for bit *)
(* (53-bit significand, round to nearest, ties to even); every value the   *)
(* code computes is non-negative and far from the exponent limits, so      *)
(* signs, subnormals, infinities and NaN are not represented.              *)
(***************************************************************************)
EXTENDS Integers, Sequences, FiniteSets, TLC

(***************************************************************************)
(* Natural numbers of any size, as sequences of digits in base Base, least *)
(* significant digit first, without leading (high) zeros; <<>> is zero.    *)
(* Base is small enough for a digit product and a carry to fit an integer  *)
(* of the model checker.                                                   *)
(***************************************************************************)
DigitBits == 15
Base == 2 ^ DigitBits

RECURSIVE LNat(_)
LNat(n) == IF n = 0 THEN <<>> ELSE <<n % Base>> \o LNat(n \div Base)

RECURSIVE LTrim(_)
LTrim(a) ==
  IF a = <<>> THEN <<>>
  ELSE IF a[Len(a)] = 0 THEN LTrim(SubSeq(a, 1, Len(a) - 1)) ELSE a

LDigit(a, i) == IF i >= 1 /\ i <= Len(a) THEN a[i] ELSE 0

RECURSIVE LAddFrom(_, _, _, _)
LAddFrom(a, b, i, carry) ==
  IF i > Len(a) /\ i > Len(b)
  THEN IF carry > 0 THEN <<carry>> ELSE <<>>
  ELSE LET s == LDigit(a, i) + LDigit(b, i) + carry
       IN  <<s % Base>> \o LAddFrom(a, b, i + 1, s \div Base)

LAdd(a, b) == LAddFrom(a, b, 1, 0)

\* a - b for a >= b
RECURSIVE LSubFrom(_, _, _, _)
LSubFrom(a, b, i, borrow) ==
  IF i > Len(a) THEN <<>>
  ELSE LET d == LDigit(a, i) - LDigit(b, i) - borrow
       IN  <<d % Base>> \o LSubFrom(a, b, i + 1, IF d < 0 THEN 1 ELSE 0)

LSub(a, b) == LTrim(LSubFrom(a, b, 1, 0))

\* a < b, comparing from the most significant digit down
RECURSIVE LLtFrom(_, _, _)
LLtFrom(a, b, i) ==
  IF i = 0 THEN FALSE
  ELSE IF a[i] # b[i] THEN a[i] < b[i] ELSE LLtFrom(a, b, i - 1)

LLt(a, b) ==
  IF Len(a) # Len(b) THEN Len(a) < Len(b) ELSE LLtFrom(a, b, Len(a))

LLe(a, b) == ~LLt(b, a)

\* a * k for a digit-sized k
RECURSIVE LMulDigitFrom(_, _, _, _)
LMulDigitFrom(a, k, i, carry) ==
  IF i > Len(a)
  THEN IF carry > 0 THEN <<carry>> ELSE <<>>
  ELSE LET p == a[i] * k + carry
       IN  <<p % Base>> \o LMulDigitFrom(a, k, i + 1, p \div Base)

LMulDigit(a, k) == IF k = 0 THEN <<>> ELSE LMulDigitFrom(a, k, 1, 0)

\* a * Base^k
LShiftDigits(a, k) == IF a = <<>> \/ k <= 0 THEN a ELSE [i \in 1..k |-> 0] \o a

RECURSIVE LMulFrom(_, _, _)
LMulFrom(a, b, i) ==
  IF i > Len(b) THEN <<>>
  ELSE LAdd(LShiftDigits(LMulDigit(a, b[i]), i - 1), LMulFrom(a, b, i + 1))

LMul(a, b) == LMulFrom(a, b, 1)

\* a divided by a digit-sized k > 0, from the most significant digit down
RECURSIVE LDivDigitFrom(_, _, _, _, _)
LDivDigitFrom(a, k, i, q, r) ==
  IF i = 0 THEN [q |-> LTrim(q), r |-> r]
  ELSE LET cur == r * Base + a[i]
       IN  LDivDigitFrom(a, k, i - 1, <<cur \div k>> \o q, cur % k)

LDivDigit(a, k) == LDivDigitFrom(a, k, Len(a), <<>>, 0)

\* The number of bits of a digit, and of a number
DigitLen(d) == CHOOSE k \in 0..DigitBits : d < 2 ^ k /\ (k = 0 \/ d >= 2 ^ (k - 1))

LBitLen(a) ==
  IF a = <<>> THEN 0 ELSE (Len(a) - 1) * DigitBits + DigitLen(a[Len(a)])

\* a * 2^k
LShl(a, k) == LShiftDigits(LMulDigit(a, 2 ^ (k % DigitBits)), k \div DigitBits)

LShrDigits(d, lost) == [v |-> d.q, sticky |-> lost \/ d.r # 0]

\* a \div 2^k, and whether a nonzero part was shifted out
LShr(a, k) ==
  LShrDigits(LDivDigit(IF k \div DigitBits >= Len(a) THEN <<>>
                       ELSE SubSeq(a, k \div DigitBits + 1, Len(a)),
                       2 ^ (k % DigitBits)),
             \E i \in 1..Len(a) : i <= k \div DigitBits /\ a[i] # 0)

(***************************************************************************)
(* IEEE-754 binary64 values >= 0: zero, or m * 2^e with m of exactly       *)
(* Precision bits.                                                         *)
(***************************************************************************)
Precision == 53

FZero == [m |-> <<>>, e |-> 0]

\* A significand q that rounding may have carried to Precision + 1 bits.
FCarry(q, e) ==
  IF LBitLen(q) > Precision THEN [m |-> LShr(q, 1).v, e |-> e + 1]
  ELSE [m |-> q, e |-> e]

\* q * 2^e with the guard bit and the rest below it: to nearest, ties to even.
FRoundUp(q, e, guard, rest) ==
  FCarry(IF guard /\ (rest \/ q[1] % 2 = 1) THEN LAdd(q, <<1>>) ELSE q, e)

\* t.v holds Precision + 1 bits, the last of them the guard bit.
FRoundGuard(t, e, sticky) ==
  FRoundUp(LShr(t.v, 1).v, e, t.v[1] % 2 = 1, sticky \/ t.sticky)

FRoundLen(n, e, sticky, len) ==
  IF len = 0 THEN FZero
  ELSE IF len <= Precision
  THEN [m |-> LShl(n, Precision - len), e |-> e - (Precision - len)]
  ELSE FRoundGuard(LShr(n, len - Precision - 1), e + (len - Precision), sticky)

\* Round (n + a fraction, nonzero iff sticky) * 2^e to nearest, ties to even.
FRound(n, e, sticky) == FRoundLen(n, e, sticky, LBitLen(n))

\* A number literal or integer-valued number n >= 0 (exact below 2^53).
FNum(n) == FRound(LNat(n), 0, FALSE)

FMul(a, b) ==
  IF a.m = <<>> \/ b.m = <<>> THEN FZero
  ELSE FRound(LMul(a.m, b.m), a.e + b.e, FALSE)

\* One step of binary long division of r by b: the next quotient bit.
FDivBit(q, r, b, ge) ==
  [q |-> LAdd(LMulDigit(q, 2), IF ge THEN <<1>> ELSE <<>>),
   r |-> LMulDigit(IF ge THEN LSub(r, b) ELSE r, 2), b |-> b]

FDivStep(s) == FDivBit(s.q, s.r, s.b, LLe(s.b, s.r))

\* k steps of the division; once the remainder is 0 the remaining bits are 0.
RECURSIVE FDivSteps(_, _)
FDivSteps(s, k) ==
  IF k = 0 THEN s
  ELSE IF s.r = <<>> THEN [q |-> LShl(s.q, k), r |-> <<>>, b |-> s.b]
  ELSE FDivSteps(FDivStep(s), k - 1)

FDivRound(d, e) == FRound(d.q, e, d.r # <<>>)

\* a / b for b # 0: Precision + 3 quotient bits, then rounded
FDiv(a, b) ==
  IF a.m = <<>> THEN FZero
  ELSE FDivRound(FDivSteps([q |-> <<>>, r |-> a.m, b |-> b.m], Precision + 3),
                 a.e - b.e - (Precision + 2))

FMinE(a, b) == IF a.e < b.e THEN a.e ELSE b.e

\* The significand of a aligned to exponent e <= a.e
FAlign(a, e) == LShl(a.m, a.e - e)

FAddAt(a, b, e) == FRound(LAdd(FAlign(a, e), FAlign(b, e)), e, FALSE)

FAdd(a, b) ==
  IF a.m = <<>> THEN b
  ELSE IF b.m = <<>> THEN a
  ELSE FAddAt(a, b, FMinE(a, b))

FLeAt(a, b, e) == LLe(FAlign(a, e), FAlign(b, e))

FLe(a, b) ==
  IF a.m = <<>> THEN TRUE
  ELSE IF b.m = <<>> THEN FALSE
  ELSE FLeAt(a, b, FMinE(a, b))

FLt(a, b) == ~FLe(b, a)

FSubAt(a, b, e) == FRound(LSub(FAlign(a, e), FAlign(b, e)), e, FALSE)

\* a - b for a >= b
FSub(a, b) == IF b.m = <<>> THEN a ELSE FSubAt(a, b, FMinE(a, b))

\* A decimal literal num/den (5.6 is 56/10): the double nearest to it.
FLit(num, den) == FDiv(FNum(num), FNum(den))

(***************************************************************************)
(* JavaScript values.  A string is a sequence of tokens: single characters *)
(* where the code works on characters (titles), and whole fragments where  *)
(* it only concatenates (template text, markup).  An optional property is  *)
(* None when absent (reads as undefined).                                  *)
(***************************************************************************)
None == [some |-> FALSE]
Some(v) == [some |-> TRUE, v |-> v]

\* Truthiness of an optional string: undefined and '' are falsy.
Truthy(o) == o.some /\ o.v # <<>>

\* o || ''
OrEmpty(o) == IF Truthy(o) THEN o.v ELSE <<>>

\* `${v}` for a kpi value: a number [num |-> n] or a string [str |-> s]
ValueText(v) == IF "num" \in DOMAIN v THEN <<ToString(v.num)>> ELSE v.str

\* A number given as the decimal n/d (12 is 12/1, 0.1 is 1/10): its double.
JsNumber(c) == IF c.d = 1 THEN FNum(c.n) ELSE FLit(c.n, c.d)

\* `${x}` for a number: the numeral that identifies the double x.
NumText(f) == ToString(f)

\* The logical canvas, in the units of position and size.
CanvasWidth == 800
CanvasHeight == 450

(***************************************************************************)
(* Filenames: title.replace(/\s+/g, '_').toLowerCase()                     *)
(***************************************************************************)
Whitespace == {" ", "\t", "\n"}

UpperCase == <<"A", "B", "C", "D", "E", "F", "G", "H", "I", "J", "K", "L", "M",
               "N", "O", "P", "Q", "R", "S", "T", "U", "V", "W", "X", "Y", "Z">>
LowerCase == <<"a", "b", "c", "d", "e", "f", "g", "h", "i", "j", "k", "l", "m",
               "n", "o", "p", "q", "r", "s", "t", "u", "v", "w", "x", "y", "z">>

LowerChar(ch) ==
  IF \E i \in 1..Len(UpperCase) : UpperCase[i] = ch
  THEN LowerCase[CHOOSE i \in 1..Len(UpperCase) : UpperCase[i] = ch]
  ELSE ch

toLowerCase(s) == [i \in 1..Len(s) |-> LowerChar(s[i])]

\* The end of the longest match of \s+ starting at i (i - 1 when none).
RECURSIVE MatchWhitespaceRun(_, _)
MatchWhitespaceRun(s, i) ==
  IF i <= Len(s) /\ s[i] \in Whitespace THEN MatchWhitespaceRun(s, i + 1) ELSE i - 1

\* The mutation of ReplaceWhitespace: /\s/g, every whitespace character replaced.
RECURSIVE ReplaceEachWhitespace(_, _)
ReplaceEachWhitespace(s, i) ==
  IF i > Len(s) THEN <<>>
  ELSE <<IF s[i] \in Whitespace THEN "_" ELSE s[i]>> \o ReplaceEachWhitespace(s, i + 1)

\* s.replace(/\s+/g, '_') from position i: matches are found left to right.
RECURSIVE ReplaceWhitespace(_, _)
ReplaceWhitespace(s, i) ==
  IF i > Len(s) THEN <<>>
  ELSE LET j == MatchWhitespaceRun(s, i)
       IN  IF j >= i THEN <<"_">> \o ReplaceWhitespace(s, j + 1)
           ELSE <<s[i]>> \o ReplaceWhitespace(s, i + 1)

TitleFilename(title, ext) == toLowerCase(ReplaceWhitespace(title, 1)) \o <<".", ext>>

(***************************************************************************)
(* Responses and thrown values.  An Error carries a message; any other     *)
(* value can be thrown too: a string has no message property, and reading  *)
(* a property of undefined raises a TypeError.                             *)
(***************************************************************************)
ErrorOf(message) == [kind |-> "Error", message |-> message]
ThrownString == [kind |-> "string"]
ThrownUndefined == [kind |-> "undefined"]

\* `${error.message}`
MessageText(error) == IF error.kind = "Error" THEN error.message ELSE <<"undefined">>

SuccessResponse(url, filename) ==
  [success |-> TRUE, downloadUrl |-> url, filename |-> filename]

\* The mutation of FailureResponse: the message without the marker.
FailureResponseBare(error) == [success |-> FALSE, error |-> MessageText(error)]

FailureResponse(error) ==
  [success |-> FALSE, error |-> <<"Export failed: ">> \o MessageText(error)]

UnsupportedFormat(format) == ErrorOf(<<"Unsupported export format: ", format>>)

\* What a renderer's promise settles to.
Returned(v) == [returned |-> v]
Threw(e) == [threw |-> e]

(***************************************************************************)
(* exportAsPDF: the image box on the A4 landscape page.                    *)
(***************************************************************************)
pdfWidth == 297
pdfHeight == 210

aspectRatio == FDiv(FNum(16), FNum(9))

\* The mutation of FitWidth: the margin taken off one side only.
FitWidthOneMargin == FSub(FNum(pdfWidth), FNum(10))

FitWidth == FSub(FNum(pdfWidth), FNum(20))

FitHeight == FSub(FNum(pdfHeight), FNum(20))

\* The box of the given size, centred on the page.
CentredBox(imgWidth, imgHeight) ==
  [x |-> FDiv(FSub(FNum(pdfWidth), imgWidth), FNum(2)),
   y |-> FDiv(FSub(FNum(pdfHeight), imgHeight), FNum(2)),
   imgWidth |-> imgWidth, imgHeight |-> imgHeight]

\* imgHeight is the height of the box as wide as FitWidth.
ShrinkToHeight(imgHeight) ==
  IF FLt(FitHeight, imgHeight)
  THEN CentredBox(FMul(FitHeight, aspectRatio), FitHeight)
  ELSE CentredBox(FitWidth, imgHeight)

PdfImageBox == ShrinkToHeight(FDiv(FitWidth, aspectRatio))

(***************************************************************************)
(* exportAsPowerPoint: one slide, a title text box, then the components.   *)
(***************************************************************************)
\* The number literals of the renderer, as doubles.
LogicalWidth == FNum(CanvasWidth)
LogicalHeight == FNum(CanvasHeight)
SlideWidth == FNum(10)
SlideContentHeight == FLit(56, 10)
SlideContentTop == FLit(12, 10)
KpiTitleHeight == FLit(3, 10)
SlideTitleBox == [x |-> FLit(5, 10), y |-> FLit(3, 10), w |-> FNum(9), h |-> FLit(8, 10)]

SlideGeometry(component) ==
  [x |-> FMul(FDiv(JsNumber(component.position.x), LogicalWidth), SlideWidth),
   y |-> FAdd(FMul(FDiv(JsNumber(component.position.y), LogicalHeight),
                   SlideContentHeight), SlideContentTop),
   w |-> FMul(FDiv(JsNumber(component.size.width), LogicalWidth), SlideWidth),
   h |-> FMul(FDiv(JsNumber(component.size.height), LogicalHeight),
              SlideContentHeight)]

SlideTitle(dashboard) ==
  [shape |-> "text", text |-> dashboard.title,
   x |-> SlideTitleBox.x, y |-> SlideTitleBox.y, w |-> SlideTitleBox.w,
   h |-> SlideTitleBox.h, fontSize |-> 24, fontFace |-> "Arial",
   color |-> dashboard.theme.primaryColor, bold |-> TRUE]

\* chartData.labels?.map((label, i) => ({name, values: [chartData.data[i]]})) || []
ChartSeries(chartData) ==
  IF chartData.labels.some
  THEN [i \in 1..Len(chartData.labels.v) |->
          [name |-> chartData.labels.v[i], values |-> <<chartData.data[i]>>]]
  ELSE <<>>

ChartShape(component, g) ==
  [shape |-> "chart", type |-> "bar",
   data |-> ChartSeries(component.data.datasets.v[1]),
   x |-> g.x, y |-> g.y, w |-> g.w, h |-> g.h, title |-> component.title]

KpiText(component) ==
  ValueText(component.data.value) \o <<" ">> \o OrEmpty(component.data.unit)

KpiShape(dashboard, component, g) ==
  [shape |-> "text", text |-> KpiText(component),
   x |-> g.x, y |-> g.y, w |-> g.w, h |-> g.h,
   fontSize |-> 18, fontFace |-> "Arial",
   color |-> dashboard.theme.primaryColor, bold |-> TRUE, align |-> "center"]

KpiTitleShape(dashboard, component, g) ==
  [shape |-> "text", text |-> component.title.v,
   x |-> g.x, y |-> FSub(g.y, KpiTitleHeight), w |-> g.w, h |-> KpiTitleHeight,
   fontSize |-> 12, fontFace |-> "Arial", color |-> dashboard.theme.textColor]

\* Reading a property of datasets[0] when datasets is empty.
LabelsOfUndefined ==
  ErrorOf(<<"Cannot read properties of undefined (reading 'labels')">>)

\* The body of the forEach callback with x, y, w, h in g: the shapes it adds, or
\* what it throws.
AddShapes(dashboard, component, g) ==
  IF component.type = "chart" /\ component.data.datasets.some
  THEN IF component.data.datasets.v = <<>>
       THEN Threw(LabelsOfUndefined)
       ELSE Returned(<<ChartShape(component, g)>>)
  ELSE IF component.type = "kpi"
  THEN Returned(<<KpiShape(dashboard, component, g)>>
                \o IF Truthy(component.title)
                   THEN <<KpiTitleShape(dashboard, component, g)>>
                   ELSE <<>>)
  ELSE Returned(<<>>)

AddComponent(dashboard, component) ==
  AddShapes(dashboard, component, SlideGeometry(component))

\* dashboard.components.forEach from index i on, the slide holding `shapes`.
RECURSIVE AddComponents(_, _, _), AddNext(_, _, _, _)
AddComponents(dashboard, i, shapes) ==
  IF i > Len(dashboard.components) THEN [shapes |-> shapes, threw |-> None]
  ELSE AddNext(dashboard, i, shapes, AddComponent(dashboard, dashboard.components[i]))

\* The forEach after its callback ended as r on component i.
AddNext(dashboard, i, shapes, r) ==
  IF "threw" \in DOMAIN r THEN [shapes |-> shapes, threw |-> Some(r.threw)]
  ELSE AddComponents(dashboard, i + 1, shapes \o r.returned)

\* exportAsPowerPoint up to its await: the slide, and what was thrown if anything.
BuildSlide(dashboard) == AddComponents(dashboard, 1, <<SlideTitle(dashboard)>>)

(***************************************************************************)
(* generateHTMLCode: the document as a sequence of tokens.  The template's *)
(* text is cut so that each tag is a token, and layout whitespace between  *)
(* tags is left out.                                                       *)
(***************************************************************************)
Hundred == FNum(100)

PercentLeft(component) ==
  FMul(FDiv(JsNumber(component.position.x), LogicalWidth), Hundred)

PercentTop(component) ==
  FMul(FDiv(JsNumber(component.position.y), LogicalHeight), Hundred)

PercentWidth(component) ==
  FMul(FDiv(JsNumber(component.size.width), LogicalWidth), Hundred)

\* The mutation of PercentHeight: the height taken over the canvas width.
PercentHeightByWidth(component) ==
  FMul(FDiv(JsNumber(component.size.height), LogicalWidth), Hundred)

PercentHeight(component) ==
  FMul(FDiv(JsNumber(component.size.height), LogicalHeight), Hundred)

PercentGeometry(component) ==
  [left |-> PercentLeft(component), top |-> PercentTop(component),
   width |-> PercentWidth(component), height |-> PercentHeight(component)]

BlockOpen == "<div class=\"component\" style=\""
TitleLabelOpen == "<div class=\"component-title\">"
KpiValueOpen == "<div class=\"kpi-value\">"
CanvasOpen == "<canvas id=\"chart-"
CanvasClose == "\"></canvas>"

\* The block of a component whose style holds the percentages g.
PositionedBlock(component, g) ==
  <<BlockOpen, "left: ", NumText(g.left), "%;", "top: ", NumText(g.top), "%;",
    "width: ", NumText(g.width), "%;", "height: ", NumText(g.height), "%;", "\">">>
  \o (IF Truthy(component.title)
      THEN <<TitleLabelOpen>> \o component.title.v \o <<"</div>">>
      ELSE <<>>)
  \o (IF component.type = "kpi"
      THEN <<KpiValueOpen>> \o KpiText(component) \o <<"</div>">>
      ELSE <<CanvasOpen, component.id, CanvasClose>>)
  \o <<"</div>">>

ComponentBlock(component) == PositionedBlock(component, PercentGeometry(component))

\* dashboard.components.map(...).join('')
RECURSIVE ComponentBlocks(_, _)
ComponentBlocks(components, i) ==
  IF i > Len(components) THEN <<>>
  ELSE ComponentBlock(components[i]) \o ComponentBlocks(components, i + 1)

StyleSheet(theme) ==
  <<"<style>",
    "body {", "font-family: ", theme.fontFamily, ";",
    "background-color: ", theme.backgroundColor, ";",
    "color: ", theme.textColor, ";", "margin: 0;", "padding: 20px;", "}",
    ".dashboard {", "max-width: 1200px;", "margin: 0 auto;", "aspect-ratio: 16/9;",
    "position: relative;", "}",
    ".component {", "position: absolute;", "background: white;",
    "border: 1px solid #e5e7eb;", "border-radius: 8px;", "padding: 16px;",
    "box-shadow: 0 1px 3px rgba(0,0,0,0.1);", "}",
    ".kpi-value {", "font-size: 2rem;", "font-weight: bold;",
    "color: ", theme.primaryColor, ";", "}",
    ".component-title {", "font-size: 1.1rem;", "font-weight: 600;",
    "margin-bottom: 12px;", "color: ", theme.textColor, ";", "}",
    "</style>">>

generateHTMLCode(dashboard) ==
  <<"<!DOCTYPE html>", "<html lang=\"en\">", "<head>", "<meta charset=\"UTF-8\">",
    "<meta name=\"viewport\" content=\"width=device-width, initial-scale=1.0\">",
    "<title>">> \o dashboard.title \o <<"</title>",
    "<script src=\"https://cdn.jsdelivr.net/npm/chart.js\"></script>">>
  \o StyleSheet(dashboard.theme)
  \o <<"</head>", "<body>", "<div class=\"dashboard\">", "<h1>">>
  \o dashboard.title \o <<"</h1>">>
  \o ComponentBlocks(dashboard.components, 1)
  \o <<"</div>", "</body>", "</html>">>

(***************************************************************************)
(* encodeURIComponent, token by token: a token of unreserved characters    *)
(* (letters, digits, - _ . ! ~ * ' ( )) stays, any other is escaped, and a *)
(* lone surrogate makes the call throw URIError.  An escaped token is the   *)
(* token marked with %.                                                    *)
(***************************************************************************)
LoneSurrogate == "\\uD800"

Unreserved ==
  {"S", "a", "_", "Q1", "Report", "Revenue", "1000", "USD", "A", "B", "k1", "c1",
   "t1", "Arial", "white", "black", "blue", "undefined"}

WellFormed(s) == \A i \in 1..Len(s) : s[i] # LoneSurrogate

EncodeToken(t) == IF t \in Unreserved THEN t ELSE "%" \o t

encodeURIComponent(s) == [i \in 1..Len(s) |-> EncodeToken(s[i])]

URIMalformed == ErrorOf(<<"URI malformed">>)

(***************************************************************************)
(* The artifacts a download URL resolves to.                               *)
(***************************************************************************)
\* canvas.toDataURL on the surface that shows the dashboard
ImageDataUrl(canvas, format) ==
  [scheme |-> "data", resolves |-> [image |-> canvas, format |-> format]]

\* URL.createObjectURL(blob): the URL is identified with the blob it resolves to
PdfUrl(imgData, box) ==
  [scheme |-> "blob",
   resolves |-> [pdf |-> [image |-> imgData, type |-> "JPEG", box |-> box]]]

PptxUrl(shapes) ==
  [scheme |-> "blob", resolves |-> [pptx |-> [layout |-> "LAYOUT_16x9", slide |-> shapes]]]

HtmlDataUrl(html) ==
  [scheme |-> "data",
   resolves |-> [text |-> <<"data:text/html;charset=utf-8,">> \o encodeURIComponent(html)]]

(***************************************************************************)
(* The state: concurrent calls of exportDashboard on one event loop.       *)
(***************************************************************************)
MaxCalls == 2
Calls == 1..MaxCalls

VARIABLES
  dashboard,  \* the dashboard argument of each call
  format,     \* the format argument of each call
  pc,         \* where each call stands
  frame,      \* the locals a suspended renderer keeps across its await
  rendered,   \* what the renderer's promise settled to
  promise,    \* the promise exportDashboard returned to its caller
  effects,    \* the collaborator calls each call has made, in order
  clipboard   \* the text on the system clipboard

vars == <<dashboard, format, pc, frame, rendered, promise, effects, clipboard>>

NoFrame == [empty |-> TRUE]
NotRendered == [pending |-> TRUE]
Pending == [state |-> "pending"]
Fulfilled(v) == [state |-> "fulfilled", value |-> v]
Rejected(e) == [state |-> "rejected", reason |-> e]

\* How a collaborator's call ends: it returns, or throws one of the values T.
Outcomes(T) == {[ok |-> TRUE]} \cup {[ok |-> FALSE, thrown |-> v] : v \in T}

\* The caller's drawing surface shows the dashboard it is exported with.
SurfaceOf(d) == [shows |-> d.title]

\* The catch block of exportDashboard: reading error.message is itself a
\* property access, which throws for undefined.
MessageOfUndefined ==
  ErrorOf(<<"Cannot read properties of undefined (reading 'message')">>)

Catch(error) ==
  IF error.kind = "undefined" THEN Rejected(MessageOfUndefined)
  ELSE Fulfilled(FailureResponse(error))

\* exportDashboard after `await this.exportAs...`: return, or catch.
Settle(r) == IF "returned" \in DOMAIN r THEN Fulfilled(r.returned) ELSE Catch(r.threw)

\* Where a call stands after a step: a renderer suspended, or its promise settled.
Suspended(at, fr, fx) ==
  [pc |-> at, frame |-> fr, rendered |-> NotRendered, promise |-> Pending, effects |-> fx]
Rendered(r, fx) ==
  [pc |-> "returning", frame |-> NoFrame, rendered |-> r, promise |-> Pending,
   effects |-> fx]

exportAsImage(d, f, surfaceRead) ==
  IF surfaceRead.ok
  THEN Rendered(Returned(SuccessResponse(ImageDataUrl(SurfaceOf(d), f),
                                         <<"dashboard", ".", f>>)),
                <<[toDataURL |-> f]>>)
  ELSE Rendered(Threw(surfaceRead.thrown), <<[toDataURL |-> f]>>)

\* exportAsPDF once the image is read: the image placed at box, then encoded.
AddImage(d, imgData, box, encoded) ==
  IF ~encoded.ok
  THEN Rendered(Threw(encoded.thrown),
                <<[toDataURL |-> "image/jpeg"], [addImage |-> box], [output |-> "blob"]>>)
  ELSE Rendered(Returned(SuccessResponse(PdfUrl(imgData, box),
                                         TitleFilename(d.title, "pdf"))),
                <<[toDataURL |-> "image/jpeg"], [addImage |-> box], [output |-> "blob"],
                  [createObjectURL |-> "pdf"]>>)

exportAsPDF(d, surfaceRead, encoded) ==
  IF ~surfaceRead.ok
  THEN Rendered(Threw(surfaceRead.thrown), <<[toDataURL |-> "image/jpeg"]>>)
  ELSE AddImage(d, ImageDataUrl(SurfaceOf(d), "image/jpeg"), PdfImageBox, encoded)

\* exportAsPowerPoint up to `await pptx.write('blob')`
WriteSlide(built) ==
  IF built.threw.some THEN Rendered(Threw(built.threw.v), <<>>)
  ELSE Suspended("encoding", [slide |-> built.shapes], <<[write |-> "blob"]>>)

exportAsPowerPoint(d) == WriteSlide(BuildSlide(d))

\* exportAsHTML up to `await navigator.clipboard.writeText(html)`
CopyToClipboard(html) == Suspended("copying", [html |-> html], <<[writeText |-> html]>>)

exportAsHTML(d) == CopyToClipboard(generateHTMLCode(d))

\* exportDashboard from its call to its first suspension
Dispatch(d, f, surfaceRead, encoded) ==
  CASE f \in {"jpeg", "png"} -> exportAsImage(d, f, surfaceRead)
    [] f = "pdf"  -> exportAsPDF(d, surfaceRead, encoded)
    [] f = "pptx" -> exportAsPowerPoint(d)
    [] f = "html" -> exportAsHTML(d)
    [] OTHER -> [pc |-> "settled", frame |-> NoFrame, rendered |-> NotRendered,
                 promise |-> Catch(UnsupportedFormat(f)), effects |-> <<>>]

\* The call c has run to r, its first suspension or its end.
RunTo(c, r) ==
  /\ pc' = [pc EXCEPT ![c] = r.pc]
  /\ frame' = [frame EXCEPT ![c] = r.frame]
  /\ rendered' = [rendered EXCEPT ![c] = r.rendered]
  /\ promise' = [promise EXCEPT ![c] = r.promise]
  /\ effects' = [effects EXCEPT ![c] = r.effects]

\* The surface is read by the image and pdf renderers, and the pdf renderer
\* encodes its document before it returns; no other renderer calls either.
Invoke(c, T) ==
  /\ pc[c] = "ready"
  /\ \E surfaceRead \in IF format[c] \in {"jpeg", "png", "pdf"} THEN Outcomes(T)
                        ELSE {[ok |-> TRUE]},
        encoded \in IF format[c] = "pdf" THEN Outcomes(T) ELSE {[ok |-> TRUE]} :
       RunTo(c, Dispatch(dashboard[c], format[c], surfaceRead, encoded))
  /\ UNCHANGED <<dashboard, format, clipboard>>

\* pptx.write('blob') settles: the encoder produced the blob, or failed.
EncodeSettle(c, T) ==
  /\ pc[c] = "encoding"
  /\ \E o \in Outcomes(T) :
       frame' = [frame EXCEPT ![c] = [slide |-> frame[c].slide, written |-> o]]
  /\ pc' = [pc EXCEPT ![c] = "encoded"]
  /\ UNCHANGED <<dashboard, format, rendered, promise, effects, clipboard>>

\* exportAsPowerPoint after its await
ResumePowerPoint(c) ==
  /\ pc[c] = "encoded"
  /\ IF frame[c].written.ok
     THEN /\ rendered' = [rendered EXCEPT ![c] =
                 Returned(SuccessResponse(PptxUrl(frame[c].slide),
                                          TitleFilename(dashboard[c].title, "pptx")))]
          /\ effects' = [effects EXCEPT ![c] = @ \o <<[createObjectURL |-> "pptx"]>>]
     ELSE /\ rendered' = [rendered EXCEPT ![c] = Threw(frame[c].written.thrown)]
          /\ effects' = effects
  /\ pc' = [pc EXCEPT ![c] = "returning"]
  /\ frame' = [frame EXCEPT ![c] = NoFrame]
  /\ UNCHANGED <<dashboard, format, promise, clipboard>>

\* The browser carries out, or refuses, the pending clipboard write.
ClipboardSettle(c, T) ==
  /\ pc[c] = "copying"
  /\ \E o \in Outcomes(T) :
       /\ frame' = [frame EXCEPT ![c] = [html |-> frame[c].html, written |-> o]]
       /\ clipboard' = IF o.ok THEN frame[c].html ELSE clipboard
  /\ pc' = [pc EXCEPT ![c] = "copied"]
  /\ UNCHANGED <<dashboard, format, rendered, promise, effects>>

\* The mutation of DocumentToEncode: the document read back from the clipboard.
DocumentFromClipboard(c) == clipboard

\* The `html` that exportAsHTML uses after its await: its own local.
DocumentToEncode(c) == frame[c].html

\* exportAsHTML after its await
ResumeHTML(c) ==
  /\ pc[c] = "copied"
  /\ rendered' = [rendered EXCEPT ![c] =
       IF ~frame[c].written.ok THEN Threw(frame[c].written.thrown)
       ELSE IF ~WellFormed(DocumentToEncode(c)) THEN Threw(URIMalformed)
       ELSE Returned(SuccessResponse(HtmlDataUrl(DocumentToEncode(c)),
                                     <<"dashboard", ".", "html">>))]
  /\ pc' = [pc EXCEPT ![c] = "returning"]
  /\ frame' = [frame EXCEPT ![c] = NoFrame]
  /\ UNCHANGED <<dashboard, format, promise, effects, clipboard>>

\* exportDashboard after its await: the response, or the catch block.
Return(c) ==
  /\ pc[c] = "returning"
  /\ promise' = [promise EXCEPT ![c] = Settle(rendered[c])]
  /\ pc' = [pc EXCEPT ![c] = "settled"]
  /\ UNCHANGED <<dashboard, format, frame, rendered, effects, clipboard>>

\* The geometry mapping of one markup block, applied on its own.
MapGeometry(c) ==
  /\ pc[c] = "ready"
  /\ frame' = [frame EXCEPT ![c] = [geometry |-> PercentGeometry(dashboard[c].components[1])]]
  /\ pc' = [pc EXCEPT ![c] = "mapped"]
  /\ UNCHANGED <<dashboard, format, rendered, promise, effects, clipboard>>

(***************************************************************************)
(* The inputs.                                                             *)
(***************************************************************************)
MaxTitleLen == 3
MaxComponents == 2

Formats == {"jpeg", "png", "pdf", "pptx", "html"}

\* What the surface, the encoders and the clipboard may throw.
ThrowValues == {ErrorOf(<<"boom">>), ThrownString, ThrownUndefined}
ErrorsOnly == {ErrorOf(<<"boom">>)}

Theme ==
  [primaryColor |-> "blue", backgroundColor |-> "white", textColor |-> "black",
   fontFamily |-> "Arial"]

Whole(n) == [n |-> n, d |-> 1]
Tenths(n) == [n |-> n, d |-> 10]

Box(x, y, w, h) == [position |-> [x |-> x, y |-> y], size |-> [width |-> w, height |-> h]]

Component(id, type, title, box, data) ==
  [id |-> id, type |-> type, title |-> title, position |-> box.position,
   size |-> box.size, data |-> data]

TileBox == Box(Whole(0), Whole(0), Whole(200), Whole(100))
WideBox == Box(Whole(200), Whole(100), Whole(600), Whole(350))

KpiRevenue ==
  Component("k1", "kpi", Some(<<"Revenue">>), TileBox,
            [value |-> [num |-> 1000], unit |-> Some(<<"USD">>)])
KpiUntitled ==
  Component("k1", "kpi", None, WideBox, [value |-> [str |-> <<"A">>], unit |-> None])
KpiEmptyTitle ==
  Component("k1", "kpi", Some(<<>>), TileBox,
            [value |-> [num |-> 1000], unit |-> Some(<<>>)])
KpiMarkupTitle ==
  Component("k1", "kpi", Some(<<"A", BlockOpen, "\">">>), TileBox,
            [value |-> [num |-> 1000], unit |-> None])

ChartAB ==
  Component("c1", "chart", Some(<<"Revenue">>), WideBox,
            [datasets |-> Some(<<[labels |-> Some(<<"A", "B">>), data |-> <<1, 2>>],
                                 [labels |-> Some(<<"B", "A">>), data |-> <<2, 1>>]>>)])
ChartUnlabelled ==
  Component("c1", "chart", None, TileBox,
            [datasets |-> Some(<<[labels |-> None, data |-> <<1, 2>>]>>)])
ChartNoDatasets ==
  Component("c1", "chart", Some(<<"Revenue">>), TileBox, [datasets |-> None])
ChartEmptyDatasets ==
  Component("c1", "chart", Some(<<"Revenue">>), TileBox, [datasets |-> Some(<<>>)])

Table == Component("t1", "table", Some(<<"Revenue">>), WideBox, [rows |-> 0])

\* The sequences over S of length at most n
SeqsUpTo(S, n) == UNION {[1..k -> S] : k \in 0..n}

Dashboard(title, components) ==
  [title |-> title, theme |-> Theme, components |-> components]

\* Titles are given character by character where a filename is derived from them.
SalesOverview == <<"S", "a", "l", "e", "s", " ", "O", "v", "e", "r", "v", "i", "e", "w">>

Dashboards ==
  {Dashboard(t, cs) : t \in SeqsUpTo({"S", " ", "\t"}, MaxTitleLen),
                      cs \in {<<>>, <<KpiRevenue>>, <<ChartEmptyDatasets>>}}
  \cup {Dashboard(SalesOverview, <<>>), Dashboard(<<"S", LoneSurrogate>>, <<>>)}

PptxDashboards ==
  {Dashboard(<<"S", " ", "a">>, cs) :
     cs \in SeqsUpTo({KpiRevenue, KpiUntitled, KpiEmptyTitle, ChartAB, ChartUnlabelled,
                      ChartNoDatasets, ChartEmptyDatasets, Table}, MaxComponents)}

HtmlDashboards ==
  {Dashboard(t, cs) :
     t \in {<<"Q1", " ", "Report">>, <<"Q1", "</title>", "Report">>},
     cs \in SeqsUpTo({KpiRevenue, KpiUntitled, KpiEmptyTitle, KpiMarkupTitle, ChartAB,
                      Table}, MaxComponents)}

\* Positions and sizes for the geometry mapping: inside, on and beyond the canvas.
GeometryDashboards ==
  {Dashboard(<<"S">>, <<Component("c1", "chart", None, Box(x, y, w, h),
                                  [datasets |-> None])>>) :
     x \in {Whole(0), Whole(120), Whole(400), Tenths(1)},
     y \in {Whole(0), Whole(12), Whole(225), Tenths(5)},
     w \in {Whole(800), Whole(680), Whole(400), Tenths(7999)},
     h \in {Whole(450), Whole(438), Whole(225), Tenths(4495)}}

\* Concurrent calls export different dashboards.
ConcurrentDashboard(c) ==
  IF c = 1 THEN Dashboard(<<"S">>, <<KpiRevenue>>)
  ELSE Dashboard(<<"S", " ">> \o [i \in 1..c |-> "a"], <<>>)

(***************************************************************************)
(* The specifications.                                                     *)
(***************************************************************************)
\* The calls `active` are about to be made; the others are never made.
Start(active) ==
  /\ pc = [c \in Calls |-> IF c \in active THEN "ready" ELSE "unused"]
  /\ frame = [c \in Calls |-> NoFrame]
  /\ rendered = [c \in Calls |-> NotRendered]
  /\ promise = [c \in Calls |-> Pending]
  /\ effects = [c \in Calls |-> <<>>]
  /\ clipboard = <<>>

\* One call, with a dashboard of D and a format of F.
OneCall(D, F) ==
  /\ dashboard \in {[c \in Calls |-> IF c = 1 THEN d ELSE ConcurrentDashboard(c)] : d \in D}
  /\ format \in {[c \in Calls |-> IF c = 1 THEN f ELSE "png"] : f \in F}
  /\ Start({1})

\* One call of exportDashboard, any dashboard, any format, any collaborator behaviour.
Init == OneCall(Dashboards, Formats \cup {"svg"})

Next ==
  \E c \in {1} :
    \/ Invoke(c, ThrowValues)
    \/ EncodeSettle(c, ThrowValues)
    \/ ResumePowerPoint(c)
    \/ ClipboardSettle(c, ThrowValues)
    \/ ResumeHTML(c)
    \/ Return(c)

Spec == Init /\ [][Next]_vars

\* Concurrent calls, interleaved at their suspension points: a format with no
\* suspension, the two with one, and an unsupported one.
ConcurrentFormats == {"png", "pptx", "html", "svg"}

InitConcurrent ==
  /\ dashboard = [c \in Calls |-> ConcurrentDashboard(c)]
  /\ format \in [Calls -> ConcurrentFormats]
  /\ Start(Calls)

NextConcurrent ==
  \E c \in Calls :
    \/ Invoke(c, ErrorsOnly)
    \/ EncodeSettle(c, ErrorsOnly)
    \/ ResumePowerPoint(c)
    \/ ClipboardSettle(c, ErrorsOnly)
    \/ ResumeHTML(c)
    \/ Return(c)

SpecConcurrent == InitConcurrent /\ [][NextConcurrent]_vars

\* The presentation renderer on dashboards of every component kind.
InitPptx == OneCall(PptxDashboards, {"pptx"})

NextPptx ==
  \E c \in {1} :
    \/ Invoke(c, ErrorsOnly)
    \/ EncodeSettle(c, ErrorsOnly)
    \/ ResumePowerPoint(c)
    \/ Return(c)

SpecPptx == InitPptx /\ [][NextPptx]_vars

\* The markup renderer on dashboards of every component kind.
InitHtml == OneCall(HtmlDashboards, {"html"})

NextHtml ==
  \E c \in {1} :
    \/ Invoke(c, ErrorsOnly)
    \/ ClipboardSettle(c, ErrorsOnly)
    \/ ResumeHTML(c)
    \/ Return(c)

SpecHtml == InitHtml /\ [][NextHtml]_vars

\* The geometry mapping of the markup renderer on one component.
InitGeometry == OneCall(GeometryDashboards, {"html"})

NextGeometry == \E c \in {1} : MapGeometry(c)

SpecGeometry == InitGeometry /\ [][NextGeometry]_vars

(***************************************************************************)
(* The claims about exportDashboard, under Spec.                           *)
(***************************************************************************)
Settled(c) == pc[c] = "settled"

IsSuccessShape(v) == DOMAIN v = {"success", "downloadUrl", "filename"} /\ v.success

IsFailureShape(v) == DOMAIN v = {"success", "error"} /\ ~v.success

Succeeded(c) ==
  Settled(c) /\ promise[c].state = "fulfilled" /\ IsSuccessShape(promise[c].value)

\* C1: whatever the dashboard, the format and the collaborators' behaviour, a
\* settled call has fulfilled its promise with exactly one of the two response
\* shapes; its promise is never rejected.
NeverRaises ==
  \A c \in Calls :
    Settled(c) =>
      /\ promise[c].state = "fulfilled"
      /\ IsSuccessShape(promise[c].value) \/ IsFailureShape(promise[c].value)

\* The operations a call has asked of its collaborators, in order.
OperationsOf(c) == [i \in 1..Len(effects[c]) |-> DOMAIN effects[c][i]]

RendererThrewError(c) ==
  /\ "threw" \in DOMAIN rendered[c]
  /\ rendered[c].threw.kind = "Error"

\* C2: a call with a format outside the closed set, or whose renderer raised an
\* error with message m, settles with the failure response whose error is
\* "Export failed: " followed by the unsupported-format message or by m; on the
\* unsupported path no collaborator was called and the clipboard is untouched;
\* and no operation of a call is ever made twice.
FailureReportedOnce ==
  \A c \in Calls :
    /\ \A i, j \in 1..Len(effects[c]) : i # j => OperationsOf(c)[i] # OperationsOf(c)[j]
    /\ Settled(c) /\ format[c] \notin Formats =>
         /\ promise[c] =
              Fulfilled([success |-> FALSE,
                         error |-> <<"Export failed: ", "Unsupported export format: ",
                                     format[c]>>])
         /\ effects[c] = <<>>
         /\ clipboard = <<>>
    /\ Settled(c) /\ RendererThrewError(c) =>
         promise[c] =
           Fulfilled([success |-> FALSE,
                      error |-> <<"Export failed: ">> \o rendered[c].threw.message])

\* A presentation export whose encoder raised an error has settled.
FailureReportedOnceWitness ==
  \E c \in Calls :
    /\ Settled(c)
    /\ format[c] = "pptx"
    /\ RendererThrewError(c)
    /\ OperationsOf(c) = <<{"write"}>>

\* C3: an html export of a well-formed document settles with the success
\* response whose downloadUrl encodes that document and whose filename is
\* dashboard.html, whether the clipboard write succeeded or threw.
ClipboardFailureTolerated ==
  \A c \in Calls :
    Settled(c) /\ format[c] = "html" /\ WellFormed(generateHTMLCode(dashboard[c])) =>
      promise[c] =
        Fulfilled([success |-> TRUE,
                   downloadUrl |-> HtmlDataUrl(generateHTMLCode(dashboard[c])),
                   filename |-> <<"dashboard", ".", "html">>])

\* The positions of s that do not continue a run of whitespace.
RunStarts(s) == {i \in 1..Len(s) : ~(s[i] \in Whitespace /\ i > 1 /\ s[i - 1] \in Whitespace)}

\* The k-th smallest element of the set of positions P.
NthOf(P, k) == CHOOSE i \in P : Cardinality({j \in P : j <= i}) = k

\* The title lower-cased, each maximal run of whitespace being one underscore.
CollapsedTitle(s) ==
  [k \in 1..Cardinality(RunStarts(s)) |->
     IF s[NthOf(RunStarts(s), k)] \in Whitespace THEN "_"
     ELSE LowerChar(s[NthOf(RunStarts(s), k)])]

\* C5: the filename of a successful export is the collapsed title followed by
\* the extension for pdf and pptx, and dashboard.<format> for jpeg, png and
\* html; "Sales Overview" exported as pdf is named sales_overview.pdf.
FilenameFromTitle ==
  \A c \in Calls :
    Succeeded(c) =>
      /\ format[c] \in {"pdf", "pptx"} =>
           promise[c].value.filename
             = CollapsedTitle(dashboard[c].title) \o <<".", format[c]>>
      /\ format[c] \in {"jpeg", "png", "html"} =>
           promise[c].value.filename = <<"dashboard", ".", format[c]>>
      /\ format[c] = "pdf" /\ dashboard[c].title = SalesOverview =>
           promise[c].value.filename
             = <<"s", "a", "l", "e", "s", "_", "o", "v", "e", "r", "v", "i", "e", "w",
                 ".", "pdf">>

\* A pdf export of a title in which two whitespace characters follow each other
\* has succeeded.
FilenameFromTitleWitness ==
  \E c \in Calls :
    /\ Succeeded(c)
    /\ format[c] = "pdf"
    /\ dashboard[c].title = <<"S", " ", "\t">>

\* The boxes at which a call has placed an image on a pdf page.
ImageBoxes(c) ==
  {effects[c][i].addImage : i \in {j \in 1..Len(effects[c]) : "addImage" \in DOMAIN effects[c][j]}}

\* C6: every image box placed on the 297 x 210 page has width / height = 16/9,
\* lies within the 10-unit margins, is centred, and reaches the margin in one
\* direction, so that no larger 16:9 box fits.
ImageBoxFitsPage ==
  \A c \in Calls : \A b \in ImageBoxes(c) :
    /\ FDiv(b.imgWidth, b.imgHeight) = FDiv(FNum(16), FNum(9))
    /\ FLe(FNum(10), b.x) /\ FLe(FNum(10), b.y)
    /\ FLe(FAdd(b.x, b.imgWidth), FNum(287))
    /\ FLe(FAdd(b.y, b.imgHeight), FNum(200))
    /\ b.x = FDiv(FSub(FNum(297), b.imgWidth), FNum(2))
    /\ b.y = FDiv(FSub(FNum(210), b.imgHeight), FNum(2))
    /\ FAdd(b.x, b.imgWidth) = FNum(287) \/ FAdd(b.y, b.imgHeight) = FNum(200)

\* A pdf export has placed its image and succeeded.
ImageBoxFitsPageWitness ==
  \E c \in Calls : Succeeded(c) /\ format[c] = "pdf" /\ ImageBoxes(c) # {}

(***************************************************************************)
(* The claim about concurrent calls, under SpecConcurrent.                 *)
(***************************************************************************)
\* What a call leaves behind: its response, the operations it asked of its
\* collaborators, and the text it put on the clipboard (none: the empty text).
Leaves(response, operations, copied) ==
  [promise |-> response, effects |-> operations, clipboard |-> copied]

\* A call made alone on dashboard d, which ran to r and whose awaited operation,
\* if it has one, ended as o.
AloneFrom(d, r, o) ==
  IF r.pc = "settled" THEN Leaves(r.promise, r.effects, <<>>)
  ELSE IF r.pc = "returning" THEN Leaves(Settle(r.rendered), r.effects, <<>>)
  ELSE IF ~o.ok THEN Leaves(Catch(o.thrown), r.effects, <<>>)
  ELSE IF r.pc = "encoding"
  THEN Leaves(Fulfilled(SuccessResponse(PptxUrl(r.frame.slide),
                                        TitleFilename(d.title, "pptx"))),
              r.effects \o <<[createObjectURL |-> "pptx"]>>, <<>>)
  ELSE IF ~WellFormed(r.frame.html) THEN Leaves(Catch(URIMalformed), r.effects, r.frame.html)
  ELSE Leaves(Fulfilled(SuccessResponse(HtmlDataUrl(r.frame.html),
                                        <<"dashboard", ".", "html">>)),
              r.effects, r.frame.html)

\* Everything a call of exportDashboard(d, f) can leave when it runs alone.
ExportAlone(d, f) ==
  {AloneFrom(d, Dispatch(d, f, surfaceRead, encoded), o) :
     surfaceRead \in Outcomes(ErrorsOnly), encoded \in Outcomes(ErrorsOnly),
     o \in Outcomes(ErrorsOnly)}

AloneTable ==
  [c \in Calls |-> [f \in ConcurrentFormats |-> ExportAlone(ConcurrentDashboard(c), f)]]

\* The runs alone that call c, as it has settled, agrees with in its response
\* and in the operations it asked for.
AgreeingAlone(c) ==
  {a \in AloneTable[c][format[c]] : a.promise = promise[c] /\ a.effects = effects[c]}

InputsUnchanged == \A c \in Calls : dashboard[c] = ConcurrentDashboard(c)

\* The clipboard holds nothing, or the document of an html export whose write
\* was carried out.
ClipboardFromSomeExport ==
  \/ clipboard = <<>>
  \/ \E c \in Calls :
       /\ pc[c] \in {"copied", "returning", "settled"}
       /\ effects[c] = <<[writeText |-> clipboard]>>

\* The call c is about to return the response of an html export: its document
\* was copied to the clipboard and encoded.
CopiedDocument(c) ==
  format[c] = "html" /\ pc[c] = "returning" /\ "returned" \in DOMAIN rendered[c]

\* C4 (as stated): in every interleaving the dashboards are unchanged, a settled
\* call has the response and has asked for the operations of a run alone, and
\* when a call that copied its document settles, the clipboard holds that
\* document, as it does when the call runs alone.
ConcurrentCallsIndependent ==
  /\ [](InputsUnchanged /\ \A c \in Calls : Settled(c) => AgreeingAlone(c) # {})
  /\ [][\A c \in Calls :
          ~Settled(c) /\ pc'[c] = "settled" /\ CopiedDocument(c) =>
            effects[c] = <<[writeText |-> clipboard']>>]_vars

\* C4 (amended): in every interleaving the dashboards are unchanged and a settled
\* call has the response and has asked for the operations, the text passed to
\* the clipboard write included, of a run alone; the clipboard itself holds the
\* document of some html export whose write was carried out.
ConcurrentCallsIndependentButClipboard ==
  /\ InputsUnchanged
  /\ \A c \in Calls : Settled(c) => AgreeingAlone(c) # {}
  /\ ClipboardFromSomeExport

\* Two html exports have both succeeded, the second one's document being the
\* one on the clipboard.
ConcurrentCallsWitness ==
  /\ \A c \in {1, 2} : Succeeded(c) /\ format[c] = "html"
  /\ effects[2] = <<[writeText |-> clipboard]>>

(***************************************************************************)
(* The claims about the presentation renderer, under SpecPptx.             *)
(***************************************************************************)
\* The call c has run the presentation renderer up to its await or its throw.
BuiltSlide(c) == format[c] = "pptx" /\ pc[c] \notin {"ready", "unused"}

\* The renderer of call c threw before it reached the encoder.
BuilderThrew(c) == "threw" \in DOMAIN rendered[c] /\ effects[c] = <<>>

\* The shapes on the slide that call c hands to the encoder.
SlideOf(c) == IF "slide" \in DOMAIN frame[c] THEN frame[c].slide ELSE <<>>

\* The geometry the claims give: (px/800*10, py/450*5.6+1.2, w/800*10, h/450*5.6)
ClaimedGeometry(component) ==
  [x |-> FMul(FDiv(JsNumber(component.position.x), FNum(800)), FNum(10)),
   y |-> FAdd(FMul(FDiv(JsNumber(component.position.y), FNum(450)), FLit(56, 10)),
              FLit(12, 10)),
   w |-> FMul(FDiv(JsNumber(component.size.width), FNum(800)), FNum(10)),
   h |-> FMul(FDiv(JsNumber(component.size.height), FNum(450)), FLit(56, 10))]

\* One entry per label of the first dataset; none when the datasets, the first
\* dataset or its labels are absent.
ClaimedSeries(datasets) ==
  IF ~datasets.some \/ datasets.v = <<>> THEN <<>>
  ELSE IF ~datasets.v[1].labels.some THEN <<>>
  ELSE [i \in 1..Len(datasets.v[1].labels.v) |->
          [name |-> datasets.v[1].labels.v[i], values |-> <<datasets.v[1].data[i]>>]]

\* The bar chart of a chart component placed at g.
ClaimedChart(component, g) ==
  [shape |-> "chart", type |-> "bar", data |-> ClaimedSeries(component.data.datasets),
   x |-> g.x, y |-> g.y, w |-> g.w, h |-> g.h, title |-> component.title]

\* The bar charts of the chart components from index i on, in order.
RECURSIVE ClaimedCharts(_, _)
ClaimedCharts(components, i) ==
  IF i > Len(components) THEN <<>>
  ELSE (IF components[i].type = "chart"
        THEN <<ClaimedChart(components[i], ClaimedGeometry(components[i]))>>
        ELSE <<>>)
       \o ClaimedCharts(components, i + 1)

IsChart(shape) == shape.shape = "chart"

IsText(shape) == shape.shape = "text"

\* C7: the presentation renderer never throws on a chart component, and the
\* charts on its slide are, in component order, one bar chart per chart
\* component, at the component's slide geometry, titled with its title, with
\* the series of its first dataset (empty when datasets or labels are absent).
ChartYieldsBarChart ==
  \A c \in Calls :
    BuiltSlide(c) =>
      /\ ~BuilderThrew(c)
      /\ pc[c] = "encoding" =>
           SelectSeq(SlideOf(c), IsChart) = ClaimedCharts(dashboard[c].components, 1)

\* The centred text box of a kpi component placed at g.
ClaimedKpi(theme, component, g) ==
  [shape |-> "text",
   text |-> ValueText(component.data.value) \o <<" ">> \o OrEmpty(component.data.unit),
   x |-> g.x, y |-> g.y, w |-> g.w, h |-> g.h, fontSize |-> 18, fontFace |-> "Arial",
   color |-> theme.primaryColor, bold |-> TRUE, align |-> "center"]

\* The text box with the title of a kpi component placed at g.
ClaimedKpiTitle(theme, component, g) ==
  [shape |-> "text", text |-> component.title.v,
   x |-> g.x, y |-> FSub(g.y, FLit(3, 10)), w |-> g.w, h |-> FLit(3, 10),
   fontSize |-> 12, fontFace |-> "Arial", color |-> theme.textColor]

ClaimedKpiBoxes(theme, component, g) ==
  <<ClaimedKpi(theme, component, g)>>
  \o IF Truthy(component.title) THEN <<ClaimedKpiTitle(theme, component, g)>> ELSE <<>>

\* The text boxes of the kpi components from index i on, in order.
RECURSIVE ClaimedTexts(_, _, _)
ClaimedTexts(theme, components, i) ==
  IF i > Len(components) THEN <<>>
  ELSE (IF components[i].type = "kpi"
        THEN ClaimedKpiBoxes(theme, components[i], ClaimedGeometry(components[i]))
        ELSE <<>>)
       \o ClaimedTexts(theme, components, i + 1)

\* The title text box of the slide.
ClaimedTitle(d) ==
  [shape |-> "text", text |-> d.title, x |-> FLit(5, 10), y |-> FLit(3, 10),
   w |-> FNum(9), h |-> FLit(8, 10), fontSize |-> 24, fontFace |-> "Arial",
   color |-> d.theme.primaryColor, bold |-> TRUE]

HasKpi(d) == \E i \in 1..Len(d.components) : d.components[i].type = "kpi"

\* C8: on the slide handed to the encoder the first shape is the title text box
\* and the text boxes after it are, in component order, the centred box of each
\* kpi component at the mapped geometry with the value and unit as text,
\* followed, when the component has a title, by the title box at
\* (x, y - 0.3, w, 0.3); other components add no text box; and the boxes of a
\* dashboard's kpi components always reach that slide.
KpiYieldsTextBoxes ==
  \A c \in Calls :
    BuiltSlide(c) =>
      /\ pc[c] = "encoding" =>
           /\ SlideOf(c)[1] = ClaimedTitle(dashboard[c])
           /\ SelectSeq(SlideOf(c), IsText)
                = <<ClaimedTitle(dashboard[c])>>
                  \o ClaimedTexts(dashboard[c].theme, dashboard[c].components, 1)
      /\ HasKpi(dashboard[c]) => ~BuilderThrew(c)

(***************************************************************************)
(* The claim about the markup document, under SpecHtml.                    *)
(***************************************************************************)
\* The positions of the token t in the document
PositionsOf(doc, t) == {i \in 1..Len(doc) : doc[i] = t}

Least(P) == CHOOSE i \in P : \A j \in P : i <= j

\* The content of the document's title element: what stands between the first
\* <title> and the first </title> after it.
DocumentTitle(doc) ==
  SubSeq(doc, Least(PositionsOf(doc, "<title>")) + 1,
         Least({j \in PositionsOf(doc, "</title>") :
                  j > Least(PositionsOf(doc, "<title>"))}) - 1)

\* The k-th positioned block of a document of n blocks: from its opening tag to
\* the next block, or to the end of the dashboard element.
BlockOf(doc, k, n) ==
  SubSeq(doc, NthOf(PositionsOf(doc, BlockOpen), k),
         IF k < n THEN NthOf(PositionsOf(doc, BlockOpen), k + 1) - 1 ELSE Len(doc) - 3)

\* The tokens `part` stand in a row somewhere in `block`.
Holds(block, part) ==
  \E i \in 1..Len(block) :
    i + Len(part) - 1 <= Len(block) /\ SubSeq(block, i, i + Len(part) - 1) = part

\* The block shows the component: a title label iff it has a title, the value
\* and unit of a kpi, and for any other type an empty canvas tagged with its id.
BlockShows(block, component) ==
  /\ Holds(block, <<TitleLabelOpen>>) <=> Truthy(component.title)
  /\ Truthy(component.title) =>
       Holds(block, <<TitleLabelOpen>> \o component.title.v \o <<"</div>">>)
  /\ IF component.type = "kpi"
     THEN /\ Holds(block, <<KpiValueOpen>> \o ValueText(component.data.value) \o <<" ">>
                            \o OrEmpty(component.data.unit) \o <<"</div>">>)
          /\ ~Holds(block, <<CanvasOpen>>)
     ELSE /\ Holds(block, <<CanvasOpen, component.id, CanvasClose>>)
          /\ ~Holds(block, <<KpiValueOpen>>)

\* The document d is the markup of dashboard dash.
DocumentShows(doc, dash) ==
  /\ DocumentTitle(doc) = dash.title
  /\ Cardinality(PositionsOf(doc, BlockOpen)) = Len(dash.components)
  /\ \A k \in 1..Len(dash.components) :
       BlockShows(BlockOf(doc, k, Len(dash.components)), dash.components[k])

\* C9: the document the markup renderer generates has the dashboard's title as
\* the content of its title element and exactly one positioned block per
\* component, in order, each showing its component.
DocumentMatchesDashboard ==
  \A c \in Calls :
    format[c] = "html" /\ pc[c] = "copying" => DocumentShows(frame[c].html, dashboard[c])

(***************************************************************************)
(* The claim about the percentage geometry, under SpecGeometry.            *)
(***************************************************************************)
\* a + b, not rounded
ExactSum(a, b) ==
  IF a.m = <<>> THEN b
  ELSE IF b.m = <<>> THEN a
  ELSE [m |-> LAdd(FAlign(a, FMinE(a, b)), FAlign(b, FMinE(a, b))), e |-> FMinE(a, b)]

\* The component lies fully within the 800 x 450 canvas (coordinates are never
\* negative here).
WithinCanvas(component) ==
  /\ FLe(ExactSum(JsNumber(component.position.x), JsNumber(component.size.width)),
         FNum(800))
  /\ FLe(ExactSum(JsNumber(component.position.y), JsNumber(component.size.height)),
         FNum(450))

FillsCanvas(component) ==
  /\ component.position = [x |-> Whole(0), y |-> Whole(0)]
  /\ component.size = [width |-> Whole(800), height |-> Whole(450)]

\* The percentages are those of the formulas, with the divisors 800 and 450.
ByTheFormulas(g, component) ==
  /\ g.left = FMul(FDiv(JsNumber(component.position.x), FNum(800)), FNum(100))
  /\ g.top = FMul(FDiv(JsNumber(component.position.y), FNum(450)), FNum(100))
  /\ g.width = FMul(FDiv(JsNumber(component.size.width), FNum(800)), FNum(100))
  /\ g.height = FMul(FDiv(JsNumber(component.size.height), FNum(450)), FNum(100))

\* 100 + 2^-45, the second double after 100
HundredRoundedUp == [m |-> LAdd(FNum(100).m, <<2>>), e |-> FNum(100).e]

\* The percentages g of a component, with the sum top + height at most `limit`.
PercentagesFit(g, component, limit) ==
  /\ ByTheFormulas(g, component)
  /\ WithinCanvas(component) =>
       /\ FLe(FZero, g.left) /\ FLe(FZero, g.top)
       /\ FLe(FAdd(g.left, g.width), FNum(100))
       /\ FLe(FAdd(g.top, g.height), limit)
  /\ FillsCanvas(component) =>
       g = [left |-> FZero, top |-> FZero, width |-> FNum(100), height |-> FNum(100)]

Mapped(c) == pc[c] = "mapped"

\* C10 (as stated): the percentages of a component within the canvas are those
\* of the formulas and satisfy 0 <= left, 0 <= top, left + width <= 100 and
\* top + height <= 100; a component filling the canvas maps to (0, 0, 100, 100).
PercentWithinCanvas ==
  \A c \in Calls :
    Mapped(c) => PercentagesFit(frame[c].geometry, dashboard[c].components[1], FNum(100))

\* C10 (amended): as stated, except that top + height may exceed 100 by the
\* rounding of the two quotients: it is at most 100 + 2^-45.
PercentWithinCanvasRounded ==
  \A c \in Calls :
    Mapped(c) =>
      PercentagesFit(frame[c].geometry, dashboard[c].components[1], HundredRoundedUp)

\* The geometry of a component that ends at the canvas's lower edge, and whose
\* top and height round to a sum above 100, has been mapped.
PercentWithinCanvasWitness ==
  \E c \in Calls :
    /\ Mapped(c)
    /\ WithinCanvas(dashboard[c].components[1])
    /\ dashboard[c].components[1].position.y = Whole(12)
    /\ dashboard[c].components[1].size.height = Whole(438)
    /\ FLt(FNum(100), FAdd(frame[c].geometry.top, frame[c].geometry.height))

====
